---- MODULE Spec2Model ----
(***************************************************************************)
(* Mini NMS: the probe firmware (M5StackCPlus2/mini_nms.ino) and the       *)
(* desktop viewer (M5StackCPlus2/nms_view.pde).                            *)
(*                                                                         *)
(* The probe is one cooperative loop().  One iteration is modelled as the  *)
(* steps LoopHead (M5.update, alarmTick, buttons), HandleCommandUDP, one   *)
(* scheduler step per target and Telemetry.  millis() is the variable      *)
(* clock, advanced by the environment action Tick between any two steps    *)
(* (the blocking pings and the delay() calls are folded into it).          *)
(* Times are milliseconds.  TLC's integers are 32 bits signed, so the      *)
(* uint32_t timestamps are explored below 2^31 (MaxClock); the unsigned     *)
(* difference a - b is still computed as the code computes it, a negative   *)
(* difference being the large value it wraps to.  The uint8_t counters are  *)
(* kept modulo 2^8.  A float round-trip time is represented by             *)
(* its value in milliseconds; the probe inputs are chosen so that every    *)
(* sum and average is a small integer, which a float holds exactly.        *)
(***************************************************************************)
EXTENDS Integers, Sequences, FiniteSets, TLC

VARIABLES
    tgts,        \* Target tgts[MAX_TGT]: all slots, also those at index >= N_TGT
    N_TGT,       \* number of slots in use
    alarm,       \* alarmActive, alarmStartMs, alarmNextMs, alarmStep
    speaker,     \* frequency of the last M5.Speaker.tone, 0 after stop()
    uiMode,      \* "UI_DASH" or "UI_INFO"
    clock,       \* millis()
    wifi,        \* WiFi.status() == WL_CONNECTED
    udpRx,       \* command datagrams received on port 5006, not yet parsed
    pc,          \* position inside loop()
    now,         \* loop()'s local now of the scheduler pass
    idx,         \* loop()'s local i of the scheduler pass
    lastTick,    \* loop()'s static lastTick
    net,         \* telemetry datagrams sent to port 5005, not yet received
    items,       \* viewer: ArrayList<Item> items, as references into heap
    heap,        \* viewer: the Item objects
    lastUpdateTs,\* viewer: lastUpdateTs
    last,        \* history: what the last step did
    nCmd,        \* history: number of command datagrams received so far
    alarmSince,  \* history: millis() when the alarm last went from idle to active
    sent         \* history: for each datagram of net, the registry it was made from

vars == <<tgts, N_TGT, alarm, speaker, uiMode, clock, wifi, udpRx, pc, now,
          idx, lastTick, net, items, heap, lastUpdateTs, last, nCmd,
          alarmSince, sent>>

probeVars == <<tgts, N_TGT, alarm, speaker, uiMode, clock, wifi, udpRx, pc,
               now, idx, lastTick>>
viewVars == <<items, heap, lastUpdateTs>>

----------------------------------------------------------------------------
(* Program constants *)

MAX_TGT == 12
FAIL_TH == 3
REC_TH == 2
PING_TRY == 4
ALARM_MAX_MS == 60000
NAME_SIZE == 16
HOST_SIZE == 48
DEFAULT_ITVL == 6000
TELEM_PERIOD == 1000
MTU_LIMIT == 1400

U8 == 256

(* Bounds of the exploration *)

MaxClock == 160000      \* Tick stops at this value of millis()
MaxCmds == 1            \* command datagrams received in one run
MaxQueue == 1           \* datagrams waiting in a socket buffer
MaxRegCmds == 2         \* command datagrams in one run of SpecReg
MaxFullCmds == 10       \* command datagrams in one run of SpecFull
MaxViewCmds == 2        \* command datagrams in one run of SpecView
MaxViewClock == 100000  \* Tick stops at this value of millis() in SpecView

----------------------------------------------------------------------------
(* struct Target and the registry *)

(* (uint32_t)(a - b) >= th, for th < 2^31 and |a - b| < 2^31: a negative   *)
(* difference wraps to a value of at least 2^31.                           *)
GeSub32(a, b, th) == IF a >= b THEN a - b >= th ELSE TRUE
GtSub32(a, b, th) == IF a >= b THEN a - b > th ELSE TRUE

NewTarget ==
    [name |-> "", host |-> "", intervalMs |-> 0, lastCheckMs |-> 0,
     consecOk |-> 0, consecFail |-> 0, isDown |-> FALSE, lastAvgRtt |-> -1,
     lastChangeMs |-> 0, downStartMs |-> 0]

StrNCpy(s, n) == IF Len(s) > n THEN SubSeq(s, 1, n) ELSE s

DefaultTargets ==
    [i \in 0..(MAX_TGT - 1) |->
        IF i = 0 THEN [NewTarget EXCEPT !.name = "zabbix",
                          !.host = "192.168.11.200", !.intervalMs = 5000]
        ELSE IF i = 1 THEN [NewTarget EXCEPT !.name = "DNS1",
                          !.host = "8.8.8.8", !.intervalMs = 7000]
        ELSE IF i = 2 THEN [NewTarget EXCEPT !.name = "DNS2",
                          !.host = "1.1.1.1", !.intervalMs = 7000]
        ELSE NewTarget]

(* The registry as the program sees it: the slots in use, in order. *)
Registry == [i \in 1..N_TGT |-> tgts[i - 1]]

----------------------------------------------------------------------------
(* Alarm *)

StopAlarm(al) == [al EXCEPT !.alarmActive = FALSE]

BeepDown(al, ms) ==
    [alarmActive |-> TRUE, alarmStartMs |-> ms, alarmNextMs |-> 0,
     alarmStep |-> 0]

\* faulty variant: the tone is played but the alarm is left as it is
BeepUpQuiet(al) == al

BeepUp(al) == StopAlarm(al)

(* alarmTick() at millis() = ms with the buttons' wasPressed() values.     *)
(* The result is the alarm and the speaker command issued (-1: none).      *)
AlarmTick(al, ms, pressed) ==
    IF ~al.alarmActive THEN [al |-> al, spk |-> -1]
    ELSE IF GeSub32(ms, al.alarmStartMs, ALARM_MAX_MS)
         THEN [al |-> StopAlarm(al), spk |-> 0]
    ELSE IF pressed THEN [al |-> StopAlarm(al), spk |-> 0]
    ELSE IF ms >= al.alarmNextMs
         THEN IF al.alarmStep = 0
              THEN [al |-> [al EXCEPT !.alarmNextMs = ms + 300,
                                      !.alarmStep = 1], spk |-> 650]
              ELSE IF al.alarmStep = 1
              THEN [al |-> [al EXCEPT !.alarmNextMs = ms + 300,
                                      !.alarmStep = 2], spk |-> 650]
              ELSE [al |-> [al EXCEPT !.alarmNextMs = ms + 1000,
                                      !.alarmStep = 0], spk |-> 650]
    ELSE [al |-> al, spk |-> -1]

----------------------------------------------------------------------------
(* Health checker *)

RECURSIVE PingSum(_, _)
PingSum(run, k) ==
    IF k = 0 THEN 0
    ELSE PingSum(run, k - 1) + (IF run[k] >= 0 THEN run[k] ELSE 0)

RECURSIVE PingOk(_, _)
PingOk(run, k) ==
    IF k = 0 THEN 0
    ELSE PingOk(run, k - 1) + (IF run[k] >= 0 THEN 1 ELSE 0)

(* icmpAvgMs: run[k] is the time of round k, or -1 when Ping.ping failed. *)
IcmpAvgMs(run) ==
    LET ok == PingOk(run, PING_TRY)
        sum == PingSum(run, PING_TRY)
    IN  IF ok > 0 THEN [up |-> TRUE, avg |-> sum \div ok]
        ELSE [up |-> FALSE, avg |-> -1]

\* faulty variant: an up-transition leaves downStartMs as it was
LogTransitionKeep(toDown, t, al, ms) ==
    IF toDown
    THEN [t |-> [t EXCEPT !.lastChangeMs = ms, !.downStartMs = ms],
          al |-> BeepDown(al, ms), spk |-> -1]
    ELSE [t |-> [t EXCEPT !.lastChangeMs = ms],
          al |-> BeepUp(al), spk |-> 1500]

(* logTransition at millis() = ms *)
LogTransition(toDown, t, al, ms) ==
    IF toDown
    THEN [t |-> [t EXCEPT !.lastChangeMs = ms, !.downStartMs = ms],
          al |-> BeepDown(al, ms), spk |-> -1]
    ELSE [t |-> [t EXCEPT !.lastChangeMs = ms, !.downStartMs = 0],
          al |-> BeepUp(al), spk |-> 1500]

(* Faulty variants of checkOne, used to test the properties below. *)

\* a success leaves consecFail as it was
CheckOneNoReset(t, connected, run, al, ms) ==
    LET r == IF connected THEN IcmpAvgMs(run) ELSE [up |-> FALSE, avg |-> -1]
        t1 == [t EXCEPT !.lastAvgRtt = IF r.up THEN r.avg ELSE -1]
    IN  IF r.up
        THEN LET t2 == [t1 EXCEPT !.consecOk = (t1.consecOk + 1) % U8]
             IN  IF t2.isDown /\ t2.consecOk >= REC_TH
                 THEN LogTransition(FALSE, [t2 EXCEPT !.isDown = FALSE], al, ms)
                 ELSE [t |-> t2, al |-> al, spk |-> -1]
        ELSE LET t2 == [t1 EXCEPT !.consecFail = (t1.consecFail + 1) % U8,
                                  !.consecOk = 0]
             IN  IF ~t2.isDown /\ t2.consecFail >= FAIL_TH
                 THEN LogTransition(TRUE, [t2 EXCEPT !.isDown = TRUE], al, ms)
                 ELSE [t |-> t2, al |-> al, spk |-> -1]

\* the thresholds are compared with > instead of >=
CheckOneLate(t, connected, run, al, ms) ==
    LET r == IF connected THEN IcmpAvgMs(run) ELSE [up |-> FALSE, avg |-> -1]
        t1 == [t EXCEPT !.lastAvgRtt = IF r.up THEN r.avg ELSE -1]
    IN  IF r.up
        THEN LET t2 == [t1 EXCEPT !.consecOk = (t1.consecOk + 1) % U8,
                                  !.consecFail = 0]
             IN  IF t2.isDown /\ t2.consecOk > REC_TH
                 THEN LogTransition(FALSE, [t2 EXCEPT !.isDown = FALSE], al, ms)
                 ELSE [t |-> t2, al |-> al, spk |-> -1]
        ELSE LET t2 == [t1 EXCEPT !.consecFail = (t1.consecFail + 1) % U8,
                                  !.consecOk = 0]
             IN  IF ~t2.isDown /\ t2.consecFail > FAIL_TH
                 THEN LogTransition(TRUE, [t2 EXCEPT !.isDown = TRUE], al, ms)
                 ELSE [t |-> t2, al |-> al, spk |-> -1]

\* a failed check leaves lastAvgRtt as it was
CheckOneKeepRtt(t, connected, run, al, ms) ==
    LET r == IF connected THEN IcmpAvgMs(run) ELSE [up |-> FALSE, avg |-> -1]
        t1 == [t EXCEPT !.lastAvgRtt = IF r.up THEN r.avg ELSE @]
    IN  IF r.up
        THEN LET t2 == [t1 EXCEPT !.consecOk = (t1.consecOk + 1) % U8,
                                  !.consecFail = 0]
             IN  IF t2.isDown /\ t2.consecOk >= REC_TH
                 THEN LogTransition(FALSE, [t2 EXCEPT !.isDown = FALSE], al, ms)
                 ELSE [t |-> t2, al |-> al, spk |-> -1]
        ELSE LET t2 == [t1 EXCEPT !.consecFail = (t1.consecFail + 1) % U8,
                                  !.consecOk = 0]
             IN  IF ~t2.isDown /\ t2.consecFail >= FAIL_TH
                 THEN LogTransition(TRUE, [t2 EXCEPT !.isDown = TRUE], al, ms)
                 ELSE [t |-> t2, al |-> al, spk |-> -1]

\* the counters are one bit wide
CheckOneOneBit(t, connected, run, al, ms) ==
    LET r == IF connected THEN IcmpAvgMs(run) ELSE [up |-> FALSE, avg |-> -1]
        t1 == [t EXCEPT !.lastAvgRtt = IF r.up THEN r.avg ELSE -1]
    IN  IF r.up
        THEN LET t2 == [t1 EXCEPT !.consecOk = (t1.consecOk + 1) % 2,
                                  !.consecFail = 0]
             IN  IF t2.isDown /\ t2.consecOk >= REC_TH
                 THEN LogTransition(FALSE, [t2 EXCEPT !.isDown = FALSE], al, ms)
                 ELSE [t |-> t2, al |-> al, spk |-> -1]
        ELSE LET t2 == [t1 EXCEPT !.consecFail = (t1.consecFail + 1) % 2,
                                  !.consecOk = 0]
             IN  IF ~t2.isDown /\ t2.consecFail >= FAIL_TH
                 THEN LogTransition(TRUE, [t2 EXCEPT !.isDown = TRUE], al, ms)
                 ELSE [t |-> t2, al |-> al, spk |-> -1]

(* checkOne(t) with the link state, the probe rounds and millis() = ms *)
CheckOne(t, connected, run, al, ms) ==
    LET r == IF connected THEN IcmpAvgMs(run) ELSE [up |-> FALSE, avg |-> -1]
        t1 == [t EXCEPT !.lastAvgRtt = IF r.up THEN r.avg ELSE -1]
    IN  IF r.up
        THEN LET t2 == [t1 EXCEPT !.consecOk = (t1.consecOk + 1) % U8,
                                  !.consecFail = 0]
             IN  IF t2.isDown /\ t2.consecOk >= REC_TH
                 THEN LogTransition(FALSE, [t2 EXCEPT !.isDown = FALSE], al, ms)
                 ELSE [t |-> t2, al |-> al, spk |-> -1]
        ELSE LET t2 == [t1 EXCEPT !.consecFail = (t1.consecFail + 1) % U8,
                                  !.consecOk = 0]
             IN  IF ~t2.isDown /\ t2.consecFail >= FAIL_TH
                 THEN LogTransition(TRUE, [t2 EXCEPT !.isDown = TRUE], al, ms)
                 ELSE [t |-> t2, al |-> al, spk |-> -1]

----------------------------------------------------------------------------
(* Registry operations; each yields the new array, the new size and the    *)
(* returned bool.                                                          *)

RECURSIVE FindFrom(_, _, _, _)
FindFrom(ts, n, name, i) ==
    IF i >= n THEN -1
    ELSE IF ts[i].name = name THEN i
    ELSE FindFrom(ts, n, name, i + 1)

FindByName(ts, n, name) == FindFrom(ts, n, name, 0)

\* faulty variant: the capacity test is off by one
AddTargetOver(ts, n, name, host, itvl) ==
    IF n > MAX_TGT THEN [tgts |-> ts, n |-> n, ok |-> FALSE]
    ELSE [tgts |-> [i \in 0..(MAX_TGT - 1) |->
                      IF i = n THEN [NewTarget EXCEPT !.name = name,
                                                      !.host = host,
                                                      !.intervalMs = itvl]
                      ELSE ts[i]],
          n |-> n + 1, ok |-> TRUE]

AddTarget(ts, n, name, host, itvl) ==
    IF n >= MAX_TGT THEN [tgts |-> ts, n |-> n, ok |-> FALSE]
    ELSE [tgts |-> [ts EXCEPT ![n] =
                      [@ EXCEPT !.name = StrNCpy(name, NAME_SIZE - 1),
                                !.host = StrNCpy(host, HOST_SIZE - 1),
                                !.intervalMs = itvl,
                                !.lastCheckMs = 0,
                                !.consecOk = 0,
                                !.consecFail = 0,
                                !.isDown = FALSE,
                                !.lastAvgRtt = -1]],
          n |-> n + 1, ok |-> TRUE]

\* faulty variant: the size is decremented without compacting the array
DelTargetByNameNoShift(ts, n, name) ==
    LET k == FindByName(ts, n, name)
    IN  IF k < 0 THEN [tgts |-> ts, n |-> n, ok |-> FALSE]
        ELSE [tgts |-> ts, n |-> n - 1, ok |-> TRUE]

DelTargetByName(ts, n, name) ==
    LET k == FindByName(ts, n, name)
    IN  IF k < 0 THEN [tgts |-> ts, n |-> n, ok |-> FALSE]
        ELSE [tgts |-> [i \in 0..(MAX_TGT - 1) |->
                          IF i >= k /\ i < n - 1 THEN ts[i + 1] ELSE ts[i]],
              n |-> n - 1, ok |-> TRUE]

\* faulty variant: the target is also made due at once
SetIntervalByNameRecheck(ts, n, name, itvl) ==
    LET k == FindByName(ts, n, name)
    IN  IF k < 0 THEN [tgts |-> ts, n |-> n, ok |-> FALSE]
        ELSE [tgts |-> [ts EXCEPT ![k].intervalMs = itvl,
                                  ![k].lastCheckMs = 0],
              n |-> n, ok |-> TRUE]

SetIntervalByName(ts, n, name, itvl) ==
    LET k == FindByName(ts, n, name)
    IN  IF k < 0 THEN [tgts |-> ts, n |-> n, ok |-> FALSE]
        ELSE [tgts |-> [ts EXCEPT ![k].intervalMs = itvl],
              n |-> n, ok |-> TRUE]

----------------------------------------------------------------------------
(* Command codec.  A datagram is [json |-> FALSE] when deserializeJson      *)
(* fails, else [json |-> TRUE, doc |-> the members of the JSON object].     *)

Member(doc, key, default) == IF key \in DOMAIN doc THEN doc[key] ELSE default

\* faulty variant: an add without itvl gets 0 instead of 6000
ApplyCommandNoDefault(ts, n, d) ==
    LET same == [tgts |-> ts, n |-> n, ok |-> FALSE]
    IN  IF ~d.json THEN same
        ELSE LET cmd == Member(d.doc, "cmd", "")
                 name == Member(d.doc, "name", "")
             IN  IF cmd = "add"
                 THEN LET host == Member(d.doc, "host", "")
                          itvl == Member(d.doc, "itvl", 0)
                      IN  IF Len(name) # 0 /\ Len(host) # 0
                          THEN AddTarget(ts, n, name, host, itvl)
                          ELSE same
                 ELSE IF cmd = "del"
                 THEN IF Len(name) # 0 THEN DelTargetByName(ts, n, name)
                      ELSE same
                 ELSE IF cmd = "set"
                 THEN LET itvl == Member(d.doc, "itvl", 0)
                      IN  IF Len(name) # 0 /\ itvl > 0
                          THEN SetIntervalByName(ts, n, name, itvl)
                          ELSE same
                 ELSE same

\* faulty variant: set does not test itvl > 0
ApplyCommandZero(ts, n, d) ==
    LET same == [tgts |-> ts, n |-> n, ok |-> FALSE]
    IN  IF ~d.json THEN same
        ELSE LET cmd == Member(d.doc, "cmd", "")
                 name == Member(d.doc, "name", "")
             IN  IF cmd = "add"
                 THEN LET host == Member(d.doc, "host", "")
                          itvl == Member(d.doc, "itvl", DEFAULT_ITVL)
                      IN  IF Len(name) # 0 /\ Len(host) # 0
                          THEN AddTarget(ts, n, name, host, itvl)
                          ELSE same
                 ELSE IF cmd = "del"
                 THEN IF Len(name) # 0 THEN DelTargetByName(ts, n, name)
                      ELSE same
                 ELSE IF cmd = "set"
                 THEN LET itvl == Member(d.doc, "itvl", 0)
                      IN  IF Len(name) # 0
                          THEN SetIntervalByName(ts, n, name, itvl)
                          ELSE same
                 ELSE same

ApplyCommand(ts, n, d) ==
    LET same == [tgts |-> ts, n |-> n, ok |-> FALSE]
    IN  IF ~d.json THEN same
        ELSE LET cmd == Member(d.doc, "cmd", "")
                 name == Member(d.doc, "name", "")
             IN  IF cmd = "add"
                 THEN LET host == Member(d.doc, "host", "")
                          itvl == Member(d.doc, "itvl", DEFAULT_ITVL)
                      IN  IF Len(name) # 0 /\ Len(host) # 0
                          THEN AddTarget(ts, n, name, host, itvl)
                          ELSE same
                 ELSE IF cmd = "del"
                 THEN IF Len(name) # 0 THEN DelTargetByName(ts, n, name)
                      ELSE same
                 ELSE IF cmd = "set"
                 THEN LET itvl == Member(d.doc, "itvl", 0)
                      IN  IF Len(name) # 0 /\ itvl > 0
                          THEN SetIntervalByName(ts, n, name, itvl)
                          ELSE same
                 ELSE same

----------------------------------------------------------------------------
(* Telemetry codec.  A telemetry datagram is the JSON document it carries: *)
(* [json |-> TRUE, doc |-> [ts, items]], items a sequence of JSON objects.  *)

RECURSIVE EscLen(_, _)
EscLen(s, k) ==
    IF k = 0 THEN 0
    ELSE EscLen(s, k - 1)
         + (IF SubSeq(s, k, k) \in {"\"", "\\"} THEN 2 ELSE 1)

RECURSIVE Digits(_)
Digits(v) == IF v < 0 THEN 1 + Digits(-v)
             ELSE IF v < 10 THEN 1 ELSE 1 + Digits(v \div 10)

ItemJson(t) ==
    [name |-> t.name, host |-> t.host,
     down |-> IF t.isDown THEN 1 ELSE 0, rtt |-> t.lastAvgRtt]

\* {"name":"..","host":"..","down":d,"rtt":r}
ItemSize(o) ==
    9 + EscLen(o.name, Len(o.name)) + 10 + EscLen(o.host, Len(o.host))
      + 9 + 1 + 7 + Digits(o.rtt) + 1

RECURSIVE ItemsSize(_, _)
ItemsSize(its, k) ==
    IF k = 0 THEN 0
    ELSE ItemsSize(its, k - 1) + ItemSize(its[k]) + (IF k > 1 THEN 1 ELSE 0)

\* {"ts":t,"items":[..]}
MeasureJson(doc) ==
    6 + Digits(doc.ts) + 10 + ItemsSize(doc.items, Len(doc.items)) + 2

TelemetryDoc(ts, n, ms) ==
    [ts |-> ms, items |-> [i \in 1..n |-> ItemJson(ts[i - 1])]]

(* sendTelemetryUDP: the datagrams written to the socket, in order *)
SendTelemetryUDP(ts, n, connected, ms) ==
    IF ~connected THEN << >>
    ELSE LET doc == TelemetryDoc(ts, n, ms)
         IN  IF MeasureJson(doc) <= MTU_LIMIT
             THEN << [json |-> TRUE, doc |-> doc] >>
             ELSE [i \in 1..n |->
                     [json |-> TRUE,
                      doc |-> [ts |-> ms, items |-> << ItemJson(ts[i - 1]) >>]]]

(* A socket buffer keeps the first MaxQueue datagrams and drops the rest. *)
Enqueue(q, ds) ==
    LET all == q \o ds
    IN  IF Len(all) > MaxQueue THEN SubSeq(all, 1, MaxQueue) ELSE all

----------------------------------------------------------------------------
(* Viewer reconciler.  heap maps a reference to the fields of an Item;     *)
(* items is the list of references.  References are renumbered after each  *)
(* datagram in order of first use, unreferenced Items are collected.       *)

ItemOk(o) == {"name", "host", "down"} \subseteq DOMAIN o

RECURSIVE MapGet(_, _, _, _)
\* the HashMap built by "for (Item it : items) map.put(it.name, it)":
\* the last Item of the list with the given name, 0 when there is none
MapGet(its, hp, name, k) ==
    IF k = 0 THEN 0
    ELSE IF hp[its[k]].name = name THEN its[k]
    ELSE MapGet(its, hp, name, k - 1)

RECURSIVE Reconcile(_, _, _, _, _, _)
\* the for loop over arr from entry k on; st = [next, heap, thrown]
Reconcile(arr, k, its, hp0, st, fresh) ==
    IF k > Len(arr) THEN st
    ELSE IF ~ItemOk(arr[k]) THEN [st EXCEPT !.thrown = TRUE]
    ELSE LET o == arr[k]
             found == MapGet(its, hp0, o.name, Len(its))
             ref == IF found = 0 THEN fresh ELSE found
             val == [name |-> o.name, host |-> o.host, down |-> (o.down = 1),
                     rtt |-> Member(o, "rtt", -1)]
             hp1 == [r \in (DOMAIN st.heap) \cup {ref} |->
                        IF r = ref THEN val ELSE st.heap[r]]
         IN  Reconcile(arr, k + 1, its, hp0,
                       [st EXCEPT !.next = Append(@, ref), !.heap = hp1],
                       IF found = 0 THEN fresh + 1 ELSE fresh)

RECURSIVE FirstUse(_, _)
\* the distinct references of a list in order of first use
FirstUse(its, k) ==
    IF k = 0 THEN << >>
    ELSE LET p == FirstUse(its, k - 1)
         IN  IF \E j \in 1..Len(p) : p[j] = its[k] THEN p
             ELSE Append(p, its[k])

Position(p, r) == CHOOSE j \in 1..Len(p) : p[j] = r

Collect(its, hp) ==
    LET p == FirstUse(its, Len(its))
    IN  [items |-> [k \in 1..Len(its) |-> Position(p, its[k])],
         heap |-> [j \in 1..Len(p) |-> hp[p[j]]]]

(* The display as drawGrid reads it: the fields of each listed Item. *)
Display == [k \in 1..Len(items) |-> heap[items[k]]]

----------------------------------------------------------------------------
(* Initial state: the globals' initialisers and setup().  setup() waits in *)
(* steps of 250 ms, at most 4000 ms, for the link to come up.              *)

Init ==
    /\ tgts = DefaultTargets
    /\ N_TGT = 3
    /\ alarm = [alarmActive |-> FALSE, alarmStartMs |-> 0, alarmNextMs |-> 0,
                alarmStep |-> 0]
    /\ speaker = 0
    /\ uiMode = "UI_DASH"
    /\ \/ wifi = TRUE /\ clock = 250
       \/ wifi = FALSE /\ clock = 4000
    /\ udpRx = << >>
    /\ pc = "loop"
    /\ now = 0
    /\ idx = 0
    /\ lastTick = 0
    /\ net = << >>
    /\ items = << >>
    /\ heap = << >>
    /\ lastUpdateTs = 0
    /\ last = [op |-> "setup"]
    /\ nCmd = 0
    /\ alarmSince = 0
    /\ sent = << >>

----------------------------------------------------------------------------
(* loop(), probe side *)

(* M5.update() with the buttons' wasPressed() values a and b, alarmTick(), *)
(* the button handlers and ensureWiFi() (which keeps no modelled state).   *)
LoopHead(a, b) ==
    /\ pc = "loop"
    /\ LET r == AlarmTick(alarm, clock, a \/ b)
           stopA == a /\ r.al.alarmActive
           al2 == IF stopA \/ b THEN StopAlarm(r.al) ELSE r.al
       IN  /\ alarm' = al2
           /\ speaker' = IF stopA \/ b THEN 0
                         ELSE IF r.spk >= 0 THEN r.spk ELSE speaker
           /\ uiMode' = IF a /\ ~r.al.alarmActive
                        THEN (IF uiMode = "UI_DASH" THEN "UI_INFO"
                              ELSE "UI_DASH")
                        ELSE uiMode
           /\ last' = [op |-> "head", a |-> a, b |-> b]
    /\ pc' = "cmd"
    /\ UNCHANGED <<tgts, N_TGT, clock, wifi, udpRx, now, idx, lastTick, net,
                   items, heap, lastUpdateTs, nCmd, alarmSince, sent>>

\* faulty variant: the datagram received last is parsed first
HandleCommandUDPNewest ==
    /\ pc = "cmd"
    /\ IF udpRx = << >>
       THEN /\ UNCHANGED <<tgts, N_TGT, udpRx>>
            /\ last' = [op |-> "nocmd"]
       ELSE LET r == ApplyCommand(tgts, N_TGT, udpRx[Len(udpRx)])
            IN  /\ tgts' = r.tgts
                /\ N_TGT' = r.n
                /\ udpRx' = SubSeq(udpRx, 1, Len(udpRx) - 1)
                /\ last' = [op |-> "cmd", d |-> udpRx[Len(udpRx)],
                            ok |-> r.ok]
    /\ pc' = "sched"
    /\ now' = clock
    /\ idx' = 0
    /\ UNCHANGED <<alarm, speaker, uiMode, clock, wifi, lastTick, net, items,
                   heap, lastUpdateTs, nCmd, alarmSince, sent>>

(* handleCommandUDP(), then "uint32_t now = millis()" and "i = 0" *)
HandleCommandUDP ==
    /\ pc = "cmd"
    /\ IF udpRx = << >>
       THEN /\ UNCHANGED <<tgts, N_TGT, udpRx>>
            /\ last' = [op |-> "nocmd"]
       ELSE LET r == ApplyCommand(tgts, N_TGT, Head(udpRx))
            IN  /\ tgts' = r.tgts
                /\ N_TGT' = r.n
                /\ udpRx' = Tail(udpRx)
                /\ last' = [op |-> "cmd", d |-> Head(udpRx), ok |-> r.ok]
    /\ pc' = "sched"
    /\ now' = clock
    /\ idx' = 0
    /\ UNCHANGED <<alarm, speaker, uiMode, clock, wifi, lastTick, net, items,
                   heap, lastUpdateTs, nCmd, alarmSince, sent>>

Due(t, ms) == GeSub32(ms, t.lastCheckMs, t.intervalMs)

(* one iteration of the scheduler's for loop whose target is due *)
SchedCheck(run) ==
    /\ pc = "sched"
    /\ idx < N_TGT
    /\ Due(tgts[idx], now)
    /\ LET r == CheckOne([tgts[idx] EXCEPT !.lastCheckMs = now], wifi, run,
                         alarm, clock)
       IN  /\ tgts' = [tgts EXCEPT ![idx] = r.t]
           /\ alarm' = r.al
           /\ alarmSince' = IF ~alarm.alarmActive /\ r.al.alarmActive
                             THEN clock ELSE alarmSince
           /\ speaker' = IF r.spk >= 0 THEN r.spk ELSE speaker
           /\ last' = [op |-> "check", i |-> idx, linked |-> wifi,
                       up |-> (wifi /\ IcmpAvgMs(run).up),
                       wasDown |-> tgts[idx].isDown,
                       hadRtt |-> tgts[idx].lastAvgRtt >= 0]
    /\ idx' = idx + 1
    /\ UNCHANGED <<N_TGT, uiMode, clock, wifi, udpRx, pc, now, lastTick, net,
                   items, heap, lastUpdateTs, nCmd, sent>>

(* one iteration of the scheduler's for loop whose target is not due *)
SchedSkip ==
    /\ pc = "sched"
    /\ idx < N_TGT
    /\ ~Due(tgts[idx], now)
    /\ idx' = idx + 1
    /\ last' = [op |-> "skip", i |-> idx]
    /\ UNCHANGED <<tgts, N_TGT, alarm, speaker, uiMode, clock, wifi, udpRx,
                   pc, now, lastTick, net, items, heap, lastUpdateTs, nCmd, alarmSince, sent>>

(* the end of the for loop, the once-a-second block and delay(10);        *)
(* heard tells whether the broadcast reaches the viewer's socket           *)
Telemetry(heard) ==
    /\ pc = "sched"
    /\ idx >= N_TGT
    /\ IF GtSub32(clock, lastTick, TELEM_PERIOD)
       THEN /\ lastTick' = clock
            /\ net' = IF heard
                      THEN Enqueue(net, SendTelemetryUDP(tgts, N_TGT, wifi,
                                                         clock))
                      ELSE net
            /\ sent' = IF heard
                       THEN Enqueue(sent,
                                [k \in 1..Len(SendTelemetryUDP(tgts, N_TGT,
                                                               wifi, clock))
                                   |-> [own |-> TRUE, reg |-> Registry]])
                       ELSE sent
            /\ last' = [sent |-> Len(SendTelemetryUDP(tgts, N_TGT, wifi,
                                                      clock)),
                        op |-> "telem"]
       ELSE /\ UNCHANGED <<lastTick, net, sent>>
            /\ last' = [sent |-> 0, op |-> "telem"]
    /\ pc' = "loop"
    /\ now' = 0
    /\ idx' = 0
    /\ UNCHANGED <<tgts, N_TGT, alarm, speaker, uiMode, clock, wifi, udpRx,
                   items, heap, lastUpdateTs, nCmd, alarmSince>>

----------------------------------------------------------------------------
(* Environment of the probe *)

Tick(d) ==
    /\ clock' = clock + d
    /\ UNCHANGED <<last, tgts, N_TGT, alarm, speaker, uiMode, wifi, udpRx, pc, now,
                   idx, lastTick, net, items, heap, lastUpdateTs, nCmd, alarmSince, sent>>

LinkChange ==
    /\ wifi' = ~wifi
    /\ UNCHANGED <<last, tgts, N_TGT, alarm, speaker, uiMode, clock, udpRx, pc, now,
                   idx, lastTick, net, items, heap, lastUpdateTs, nCmd, alarmSince, sent>>

(* a command datagram arrives on port 5006; the socket holds cap of them *)
Receive(d, cap) ==
    /\ Len(udpRx) < cap
    /\ udpRx' = Append(udpRx, d)
    /\ nCmd' = nCmd + 1
    /\ UNCHANGED <<last, tgts, N_TGT, alarm, speaker, uiMode, clock, wifi, pc,
                   now, idx, lastTick, net, items, heap, lastUpdateTs,
                   alarmSince, sent>>

RecvCommand(d) == Receive(d, MaxQueue)

----------------------------------------------------------------------------
(* Viewer *)

(* readUdpNonBlocking() when a datagram is waiting; vms is the viewer's    *)
(* millis().  Without a datagram receive() times out and nothing changes.  *)
ReadUdp(vms) ==
    /\ net # << >>
    /\ LET d == Head(net)
       IN  IF ~d.json
           THEN /\ UNCHANGED <<items, heap, lastUpdateTs>>
                /\ last' = [op |-> "read", good |-> FALSE]
           ELSE /\ lastUpdateTs' = Member(d.doc, "ts", vms)
                /\ IF "items" \notin DOMAIN d.doc
                   THEN /\ UNCHANGED <<items, heap>>
                        /\ last' = [op |-> "read", good |-> FALSE]
                   ELSE LET st == Reconcile(d.doc.items, 1, items, heap,
                                            [next |-> << >>, heap |-> heap,
                                             thrown |-> FALSE],
                                            Len(heap) + 1)
                            c == Collect(IF st.thrown THEN items ELSE st.next,
                                         st.heap)
                        IN  /\ items' = c.items
                            /\ heap' = c.heap
                            /\ last' = [op |-> "read", good |-> ~st.thrown]
    /\ net' = Tail(net)
    /\ sent' = Tail(sent)
    /\ UNCHANGED <<tgts, N_TGT, alarm, speaker, uiMode, clock, wifi, udpRx,
                   pc, now, idx, lastTick, nCmd, alarmSince>>

(* a datagram from any other sender arrives on port 5005 *)
RecvTelemetry(d) ==
    /\ Len(net) < MaxQueue
    /\ net' = Append(net, d)
    /\ sent' = Append(sent, [own |-> FALSE])
    /\ UNCHANGED <<last, tgts, N_TGT, alarm, speaker, uiMode, clock, wifi, udpRx,
                   pc, now, idx, lastTick, items, heap, lastUpdateTs, nCmd, alarmSince>>

----------------------------------------------------------------------------
(* Inputs *)

BadJson == [json |-> FALSE]
AddCmd(name, host) ==
    [doc |-> [name |-> name, host |-> host, cmd |-> "add"], json |-> TRUE]
AddCmdItvl(name, host, itvl) ==
    [doc |-> [name |-> name, host |-> host, itvl |-> itvl, cmd |-> "add"],
     json |-> TRUE]
DelCmd(name) == [doc |-> [name |-> name, cmd |-> "del"], json |-> TRUE]
SetCmd(name, itvl) ==
    [doc |-> [name |-> name, itvl |-> itvl, cmd |-> "set"], json |-> TRUE]

(* four probe rounds: all lost, or two lost and two answered *)
Lost == <<-1, -1, -1, -1>>
Answered == <<-1, 12, -1, 24>>
ProbeRuns == { Lost, Answered }

TickMs == 30000

(* The steps of loop(): the hosts in steady answer every check made while *)
(* the link is up, the buttons' values are drawn from btns, heard tells   *)
(* whether the viewer's socket receives the broadcasts.                   *)
ProbeLoop(steady, btns, heard) ==
    \/ \E ab \in btns : LoopHead(ab[1], ab[2])
    \/ HandleCommandUDP
    \/ \E run \in ProbeRuns :
          /\ idx < N_TGT
          /\ tgts[idx].host \in steady => run = Answered
          /\ SchedCheck(run)
    \/ SchedSkip
    \/ Telemetry(heard)

(* Time passes, the link changes and datagrams arrive between two         *)
(* iterations of loop().                                                  *)
PassUntil(limit) == pc = "loop" /\ clock + TickMs <= limit /\ Tick(TickMs)
Pass == PassUntil(MaxClock)
Flap == pc = "loop" /\ LinkChange
Arrive(cmds, maxCmds) ==
    \E d \in cmds : pc = "loop" /\ nCmd < maxCmds /\ RecvCommand(d)

Commands == { AddCmd("x", "10.0.0.1"), DelCmd("zabbix"), BadJson }

(* The probe alone: nobody listens on port 5005. *)
Next ==
    \/ ProbeLoop({"8.8.8.8", "1.1.1.1"}, BOOLEAN \X BOOLEAN, FALSE)
    \/ Pass
    \/ Flap
    \/ Arrive(Commands, MaxCmds)

Spec == Init /\ [][Next]_vars

InUse == 0..(N_TGT - 1)

----------------------------------------------------------------------------
(* Properties of the health checker and the alarm *)

HeadStep == pc = "loop" /\ pc' = "cmd"
CmdStep == pc = "cmd" /\ pc' = "sched"
CheckStep == pc = "sched" /\ idx' = idx + 1 /\ last'.op = "check"

\* C1: in every reachable state every target of the registry has
\* consecOk = 0 or consecFail = 0.
C1_CountersExclusive ==
    \A i \in InUse : tgts[i].consecOk = 0 \/ tgts[i].consecFail = 0

\* a target that was down with failures counted has just answered a check
C1_Witness ==
    /\ last.op = "check" /\ last.up /\ last.wasDown
    /\ tgts[last.i].consecOk = 1 /\ tgts[last.i].consecFail = 0

Health(t) == <<t.name, t.host, t.isDown>>
HealthOf(ts, n) == [i \in 1..n |-> Health(ts[i - 1])]
RemoveAt(q, k) == SubSeq(q, 1, k - 1) \o SubSeq(q, k + 1, Len(q))

C2_Step ==
    LET a == HealthOf(tgts, N_TGT)
        b == HealthOf(tgts', N_TGT')
    IN  IF CheckStep
        THEN LET t == tgts[idx]
                 u == tgts'[idx]
             IN  /\ (~t.isDown /\ u.isDown) <=> (~t.isDown /\ u.consecFail = 3)
                 /\ (t.isDown /\ ~u.isDown) <=> (t.isDown /\ u.consecOk = 2)
                 /\ N_TGT' = N_TGT
                 /\ \A j \in InUse \ {idx} : tgts'[j].isDown = tgts[j].isDown
        ELSE \/ b = a
             \/ Len(b) = Len(a) + 1 /\ SubSeq(b, 1, Len(a)) = a
             \/ \E k \in 1..Len(a) : b = RemoveAt(a, k)

\* C2: a health check turns an up target down iff it brings consecFail to
\* exactly 3, and a down target up iff it brings consecOk to exactly 2; it
\* changes no other target's isDown, and every other step leaves isDown of
\* the targets that stay in the registry as it was.
C2_Hysteresis == [][C2_Step]_vars

\* a down target has just been brought up by its second success in a row
C2_Witness ==
    /\ last.op = "check" /\ last.up /\ last.wasDown
    /\ ~tgts[last.i].isDown /\ tgts[last.i].consecOk = 2

\* C3: a due health check made while the link is down leaves the target's
\* consecOk, consecFail and isDown untouched and does not activate the alarm.
C3_SkippedWithoutLink ==
    [][CheckStep /\ ~wifi =>
          /\ tgts'[idx].consecOk = tgts[idx].consecOk
          /\ tgts'[idx].consecFail = tgts[idx].consecFail
          /\ tgts'[idx].isDown = tgts[idx].isDown
          /\ alarm'.alarmActive = alarm.alarmActive]_vars

\* C4 as stated: every down target has lastAvgRtt = -1, and after a health
\* check in which no probe round succeeded the target has lastAvgRtt = -1.
C4_Original ==
    /\ \A i \in InUse : tgts[i].isDown => tgts[i].lastAvgRtt = -1
    /\ last.op = "check" /\ ~last.up => tgts[last.i].lastAvgRtt = -1

\* C4 as amended: every down target has lastAvgRtt = -1 unless its most
\* recent check succeeded without bringing it up yet (consecOk = 1), and
\* after a health check in which no probe round succeeded the target has
\* lastAvgRtt = -1.
C4_Amended ==
    /\ \A i \in InUse :
          tgts[i].isDown => tgts[i].lastAvgRtt = -1 \/ tgts[i].consecOk = 1
    /\ last.op = "check" /\ ~last.up => tgts[last.i].lastAvgRtt = -1

\* a target that had a round-trip time has just failed a check
C4_Witness ==
    /\ last.op = "check" /\ ~last.up /\ last.linked
    /\ last.hadRtt /\ tgts[last.i].lastAvgRtt = -1
    /\ \E i \in InUse : tgts[i].isDown /\ tgts[i].lastAvgRtt = -1

\* C5: at a tick of the alarm that runs 60000 ms or more after the alarm
\* last went from idle to active, the alarm becomes inactive.
C5_AutoStop ==
    [][HeadStep /\ alarm.alarmActive /\ clock - alarmSince >= 60000
          => ~alarm'.alarmActive]_vars

\* C11: with the link available, the check that is the third failure in a
\* row of an up target makes it down, activates the alarm and sets
\* downStartMs = lastChangeMs = the time of the transition, which is not 0;
\* the first success of a down target resets consecFail to 0, leaves it down
\* and leaves the alarm as it was; the second success in a row makes it up,
\* stops the alarm, sounds the 1500 Hz tone and resets downStartMs to 0.
C11_Scenario ==
    [][CheckStep /\ wifi =>
          LET t == tgts[idx]
              u == tgts'[idx]
          IN  /\ ~t.isDown /\ ~last'.up /\ t.consecFail = 2 =>
                    /\ u.isDown /\ alarm'.alarmActive
                    /\ u.downStartMs = clock /\ u.lastChangeMs = clock
                    /\ clock # 0
              /\ t.isDown /\ last'.up /\ t.consecOk = 0 =>
                    u.consecFail = 0 /\ u.isDown /\ alarm' = alarm
              /\ t.isDown /\ last'.up /\ t.consecOk = 1 =>
                    /\ ~u.isDown /\ ~alarm'.alarmActive
                    /\ speaker' = 1500 /\ u.downStartMs = 0]_vars

\* a target that went down at some time has just come up again: the tone
\* sounds, the alarm is off and downStartMs is back to 0
C11_Witness ==
    /\ last.op = "check" /\ last.linked /\ last.up /\ last.wasDown
    /\ ~tgts[last.i].isDown /\ tgts[last.i].downStartMs = 0
    /\ tgts[last.i].lastChangeMs > 0
    /\ speaker = 1500 /\ ~alarm.alarmActive

UpTransition == CheckStep /\ tgts[idx].isDown /\ ~tgts'[idx].isDown

\* C16: there is one alarm for all targets: right after any target's
\* up-transition the alarm is inactive, also when other targets are still
\* down; and a stop that finds the alarm inactive (an up-transition, or a
\* tick of the alarm with or without a button pressed) leaves it inactive
\* and leaves the alarm's other fields and the registry as they were.
C16_GlobalAlarm ==
    [][/\ UpTransition => ~alarm'.alarmActive
       /\ UpTransition /\ ~alarm.alarmActive => alarm' = alarm
       /\ HeadStep /\ ~alarm.alarmActive =>
              alarm' = alarm /\ tgts' = tgts /\ N_TGT' = N_TGT]_vars

\* a target has just come up while another one is still down, and the
\* alarm, which has sounded before, is off
C16_Witness ==
    /\ last.op = "check" /\ last.up /\ last.wasDown
    /\ ~tgts[last.i].isDown
    /\ \E j \in InUse \ {last.i} : tgts[j].isDown
    /\ ~alarm.alarmActive /\ alarm.alarmStartMs > 0

\* C19: in an iteration of loop() where button A was pressed and the alarm
\* was active, the alarm is stopped and uiMode stays as it is; uiMode
\* changes only when button A was pressed and the alarm was inactive at the
\* start of the iteration.
C19_ButtonAPriority ==
    [][HeadStep =>
          /\ (last'.a /\ alarm.alarmActive)
                => (~alarm'.alarmActive /\ uiMode' = uiMode)
          /\ (uiMode' # uiMode)
                => (last'.a /\ ~alarm.alarmActive)]_vars

\* C21: whenever the alarm is active, at least one target of the registry
\* (a slot below N_TGT) is down, after any interleaving of health checks,
\* add/del/set commands, button presses and ticks of the alarm.
C21_AlarmImpliesDown ==
    alarm.alarmActive => \E i \in InUse : tgts[i].isDown

----------------------------------------------------------------------------
(* The alarm's beeps, with loop() running every FineMs while it sounds *)

FineMs == 100           \* a short time between two iterations of loop()
MaxBurstMs == 2000      \* the short steps stop this long after alarmStartMs
MaxBurstClock == 125000 \* Tick(TickMs) stops at this value of millis() in SpecBurst

Sounding == alarm.alarmActive /\ clock - alarm.alarmStartMs < MaxBurstMs

Fine == pc = "loop" /\ Sounding /\ Tick(FineMs)
Coarse == ~Sounding /\ PassUntil(MaxBurstClock)

(* zabbix and DNS1 may stop answering, one after the other; no button is *)
(* pressed.     loop() runs every FineMs for the first MaxBurstMs of an  *)
(* alarm and every TickMs otherwise.                                     *)
NextBurst ==
    \/ ProbeLoop({"1.1.1.1"}, {<<FALSE, FALSE>>}, FALSE)
    \/ Coarse
    \/ Fine

SpecBurst == Init /\ [][NextBurst]_vars

(* alarmTick() has sounded a beep: it is the only writer of alarmNextMs *)
(* in the head of loop()                                                 *)
Beep == HeadStep /\ alarm'.alarmNextMs # alarm.alarmNextMs

C17_Step ==
    /\ (HeadStep /\ ~alarm.alarmActive)
          => (~Beep /\ alarm' = alarm /\ speaker' \in {speaker, 0})
    /\ (HeadStep /\ alarm.alarmActive /\ alarm'.alarmActive
                  /\ alarm.alarmNextMs = 0)
          => (Beep /\ alarm.alarmStep = 0)
    /\ Beep
          => (/\ alarm.alarmActive /\ speaker' = 650
              /\ alarm'.alarmStep = (alarm.alarmStep + 1) % 3
              /\ alarm'.alarmNextMs =
                    clock + (IF alarm.alarmStep = 2 THEN 1000 ELSE 300))
    /\ (alarm.alarmActive /\ alarm'.alarmActive /\ ~HeadStep)
          => (alarm'.alarmStep = alarm.alarmStep)

\* C17: alarmStep is always 0, 1 or 2; a tick of the alarm sounds nothing
\* while the alarm is inactive; the first tick after the activation sounds
\* a beep unless it stops the alarm; a tick sounds at most one beep, which
\* advances alarmStep 0 -> 1 -> 2 -> 0 and schedules the next one 300 ms
\* later after step 0 or 1 and 1000 ms later after step 2; and between two
\* beeps of an alarm that stays active alarmStep stays as it is, so that
\* the beeps run through 0, 1, 2, 0, 1, 2, ... from activation to stop.
C17_BurstPattern ==
    [](alarm.alarmStep \in {0, 1, 2}) /\ [][C17_Step]_vars

----------------------------------------------------------------------------
(* The registry under commands *)

DefaultHosts == { "192.168.11.200", "8.8.8.8", "1.1.1.1" }

RegCommands ==
    { AddCmd("x", "10.0.0.1"), AddCmdItvl("DNS1", "10.0.0.2", 9000),
      DelCmd("DNS1"), DelCmd("DNS2"), DelCmd("nobody"),
      SetCmd("DNS1", 9000), SetCmd("DNS1", 0), BadJson }

(* Every host but the first answers while the link is up; the link stays *)
(* as setup() left it.                                                    *)
NextReg ==
    \/ ProbeLoop({"8.8.8.8", "1.1.1.1", "10.0.0.1", "10.0.0.2"},
                 {<<FALSE, FALSE>>}, FALSE)
    \/ Pass
    \/ Arrive(RegCommands, MaxRegCmds)

SpecReg == Init /\ [][NextReg]_vars

(* a name longer than name[16] holds, a host whose JSON form is escaped *)
LongName == "rack-07-switch-uplink"
QuotedHost == "\"\"\"\"\"\"\"\"\"\"\"\"\"\"\"\"\"\"\"\"\"\"\"\"\"\"\"\"\"\""

(* The registry filled up by the same add command. *)
NextFull ==
    \/ ProbeLoop(DefaultHosts \cup {QuotedHost}, {<<FALSE, FALSE>>}, FALSE)
    \/ Pass
    \/ Arrive({ AddCmd(LongName, QuotedHost) }, MaxFullCmds)

SpecFull == Init /\ [][NextFull]_vars

AddAtCapacity ==
    /\ CmdStep
    /\ udpRx # << >>
    /\ Head(udpRx).json
    /\ Member(Head(udpRx).doc, "cmd", "") = "add"
    /\ N_TGT = 12

\* C6: the registry size stays within 0..12, and an add command applied to
\* a registry of 12 targets fails and leaves the size and every target's
\* fields as they were.
C6_Capacity ==
    /\ [](N_TGT >= 0 /\ N_TGT <= 12)
    /\ [][AddAtCapacity =>
             N_TGT' = N_TGT /\ tgts' = tgts /\ ~last'.ok]_vars

\* an add command has just been refused by a registry of 12 targets
C6_Witness ==
    /\ N_TGT = 12
    /\ last.op = "cmd" /\ ~last.ok
    /\ last.d = AddCmd(LongName, QuotedHost)

\* C7: every target of the registry that is up has downStartMs = 0.
C7_DownStartZeroWhileUp ==
    \A i \in InUse : ~tgts[i].isDown => tgts[i].downStartMs = 0

(* the command about to be parsed by handleCommandUDP *)
Pending == Head(udpRx)
PendingCmd(c) ==
    /\ CmdStep /\ udpRx # << >> /\ Pending.json
    /\ Member(Pending.doc, "cmd", "") = c
    /\ Member(Pending.doc, "name", "") # ""

\* C13: an add command with non-empty name and host and no itvl, applied to
\* a registry of fewer than 12 targets, succeeds: the registry grows by one
\* target at its end, which has intervalMs = 6000, isDown = false,
\* consecOk = consecFail = 0 and lastAvgRtt = -1, and the targets that were
\* there keep their fields and their order.
C13_AddDefault ==
    [][/\ PendingCmd("add")
       /\ Member(Pending.doc, "host", "") # ""
       /\ "itvl" \notin DOMAIN Pending.doc
       /\ N_TGT < 12
       => /\ last'.ok
          /\ N_TGT' = N_TGT + 1
          /\ \A i \in InUse : tgts'[i] = tgts[i]
          /\ LET u == tgts'[N_TGT]
             IN  /\ u.intervalMs = 6000
                 /\ ~u.isDown /\ u.consecOk = 0 /\ u.consecFail = 0
                 /\ u.lastAvgRtt = -1]_vars

\* "x" has just been added without itvl into a slot that a down target
\* had used before
C13_Witness ==
    /\ last.op = "cmd" /\ last.ok /\ last.d = AddCmd("x", "10.0.0.1")
    /\ tgts[N_TGT - 1].name = "x" /\ tgts[N_TGT - 1].intervalMs = 6000
    /\ tgts[N_TGT - 1].lastChangeMs > 0

Named(name) == { i \in InUse : tgts[i].name = name }
Lowest(S) == CHOOSE k \in S : \A j \in S : k <= j

\* C14: a del command naming a target of the registry removes exactly the
\* entry of lowest index with that name: the size drops by one and the
\* other entries keep all their fields and their relative order.
C14_DeleteFirstMatch ==
    [][PendingCmd("del") /\ Named(Pending.doc.name) # {}
       => /\ last'.ok
          /\ N_TGT' = N_TGT - 1
          /\ Registry' =
                RemoveAt(Registry, Lowest(Named(Pending.doc.name)) + 1)]_vars

\* of two targets named DNS1 the first has just been deleted; the second
\* is still there, behind DNS2
C14_Witness ==
    /\ last.op = "cmd" /\ last.ok /\ last.d = DelCmd("DNS1")
    /\ N_TGT = 3
    /\ tgts[1].name = "DNS2"
    /\ tgts[2].name = "DNS1" /\ tgts[2].host = "10.0.0.2"

\* C15: a set command with itvl > 0 naming a target of the registry changes
\* intervalMs of the first target with that name and nothing else: that
\* target's other fields, every other target, the registry size and the
\* alarm stay as they were.
C15_SetOnlyInterval ==
    [][/\ PendingCmd("set")
       /\ Member(Pending.doc, "itvl", 0) > 0
       /\ Named(Pending.doc.name) # {}
       => /\ last'.ok
          /\ tgts' = [tgts EXCEPT ![Lowest(Named(Pending.doc.name))].intervalMs
                                     = Pending.doc.itvl]
          /\ N_TGT' = N_TGT
          /\ alarm' = alarm]_vars

\* the interval of DNS1 has just been set while DNS1 was down with failures
\* counted and the alarm was sounding
C15_Witness ==
    /\ last.op = "cmd" /\ last.ok /\ last.d = SetCmd("DNS1", 9000)
    /\ tgts[1].name = "DNS1" /\ tgts[1].intervalMs = 9000
    /\ tgts[1].isDown /\ tgts[1].consecFail > 0 /\ tgts[1].lastCheckMs > 0
    /\ alarm.alarmActive

----------------------------------------------------------------------------
(* Commands the probe refuses *)

UnknownCmd == [doc |-> [name |-> "DNS1", cmd |-> "reboot"], json |-> TRUE]
NoCmd == [doc |-> [name |-> "DNS1", itvl |-> 9000], json |-> TRUE]
SetNoItvl == [doc |-> [name |-> "DNS1", cmd |-> "set"], json |-> TRUE]
AddNoHost == [doc |-> [name |-> "x", cmd |-> "add"], json |-> TRUE]
AddNoName == [doc |-> [host |-> "10.0.0.1", cmd |-> "add"], json |-> TRUE]
DelNoName == [doc |-> [cmd |-> "del"], json |-> TRUE]

RejCommands ==
    { BadJson, UnknownCmd, NoCmd, SetNoItvl, SetCmd("DNS1", 0),
      AddCmd("", "10.0.0.1"), AddCmd("x", ""), AddNoHost, AddNoName,
      DelCmd(""), DelNoName, DelCmd("nobody"), SetCmd("nobody", 9000),
      DelCmd("DNS2"), SetCmd("DNS2", 9000) }

MaxRejCmds == 2         \* command datagrams in one run of SpecRej
MaxRejClock == 100000   \* Tick stops at this value of millis() in SpecRej

NextRej ==
    \/ ProbeLoop({"8.8.8.8", "1.1.1.1"}, {<<FALSE, FALSE>>}, FALSE)
    \/ PassUntil(MaxRejClock)
    \/ Arrive(RejCommands, MaxRejCmds)

SpecRej == Init /\ [][NextRej]_vars

(* the datagrams the probe is said to refuse *)
Rejected(d) ==
    \/ ~d.json
    \/ /\ d.json
       /\ LET cmd == Member(d.doc, "cmd", "")
              name == Member(d.doc, "name", "")
          IN  \/ cmd \notin {"add", "del", "set"}
              \/ cmd = "set" /\ Member(d.doc, "itvl", 0) = 0
              \/ cmd = "add" /\ (name = "" \/ Member(d.doc, "host", "") = "")
              \/ cmd = "del" /\ name = ""
              \/ /\ cmd \in {"del", "set"}
                 /\ \A i \in InUse : tgts[i].name # name

\* C12: a command datagram that is malformed JSON, has an unknown cmd, is a
\* set with itvl 0 or missing, an add with empty or missing name or host, a
\* del with empty name, or a del or set naming no target of the registry
\* leaves the registry size, every target's fields and the alarm as they
\* were, and loop() goes on to the scheduler.
C12_RejectedNoChange ==
    [][CmdStep /\ udpRx # << >> /\ Rejected(Head(udpRx)) =>
          /\ N_TGT' = N_TGT /\ tgts' = tgts /\ alarm' = alarm
          /\ pc' = "sched" /\ ~last'.ok]_vars

\* a set with itvl 0 has just been refused while the alarm was sounding;
\* the named target is in the registry with its interval
C12_Witness ==
    /\ last.op = "cmd" /\ ~last.ok /\ last.d = SetCmd("DNS1", 0)
    /\ alarm.alarmActive
    /\ \E i \in InUse : tgts[i].name = "DNS1" /\ tgts[i].intervalMs = 7000

----------------------------------------------------------------------------
(* Several commands waiting in the socket *)

MaxBacklog == 2         \* command datagrams waiting in the socket in SpecOrder
MaxOrderCmds == 3       \* command datagrams in one run of SpecOrder
MaxOrderClock == 70000  \* Tick stops at this value of millis() in SpecOrder

OrderCommands == { AddCmd("x", "10.0.0.1"), DelCmd("x"), SetCmd("x", 9000) }

ArriveBehind ==
    \E d \in OrderCommands :
        pc = "loop" /\ nCmd < MaxOrderCmds /\ Receive(d, MaxBacklog)

NextOrder ==
    \/ ProbeLoop(DefaultHosts \cup {"10.0.0.1"}, {<<FALSE, FALSE>>}, FALSE)
    \/ PassUntil(MaxOrderClock)
    \/ ArriveBehind

SpecOrder == Init /\ [][NextOrder]_vars

Settings(ts, n) ==
    [i \in 1..n |-> <<ts[i - 1].name, ts[i - 1].host, ts[i - 1].intervalMs>>]

(* what one add, del or set, or a refused command, makes of the registry *)
OneMutation ==
    \/ Registry' = Registry
    \/ N_TGT' = N_TGT + 1 /\ SubSeq(Registry', 1, N_TGT) = Registry
    \/ \E k \in 1..N_TGT : Registry' = RemoveAt(Registry, k)
    \/ \E k \in 1..N_TGT, v \in 1..9000 :
          Registry' = [Registry EXCEPT ![k].intervalMs = v]

C18_Step ==
    /\ (CmdStep /\ udpRx # << >>)
          => (/\ last'.op = "cmd" /\ last'.d = Head(udpRx)
              /\ udpRx' = Tail(udpRx)
              /\ OneMutation
              /\ idx' = 0)
    /\ ~CmdStep
          => (/\ Settings(tgts', N_TGT') = Settings(tgts, N_TGT)
              /\ Len(udpRx') >= Len(udpRx)
              /\ SubSeq(udpRx', 1, Len(udpRx)) = udpRx)

\* C18: an iteration of loop() parses at most one waiting command
\* datagram, the one received first; it makes a single change to the
\* registry before the scheduler pass starts at target 0; the datagrams
\* received later stay waiting in their order, a new one queues behind
\* them, and no other step changes the targets' names, hosts or intervals.
C18_InOrder == [][C18_Step]_vars

\* with add x and del x waiting in this order, add x has just been applied
\* and del x is still waiting
C18_Witness ==
    /\ last.op = "cmd" /\ last.ok /\ last.d = AddCmd("x", "10.0.0.1")
    /\ udpRx = << DelCmd("x") >>
    /\ N_TGT = 4 /\ tgts[3].name = "x"

----------------------------------------------------------------------------
(* A target that is due in every iteration of loop() *)

MaxWrapCmds == 1        \* command datagrams in one run of SpecWrap
MaxWrapClock == 61000   \* Tick stops at this value of millis() in SpecWrap

(* "w" is added with itvl 0 and may answer or not; the other hosts answer *)
NextWrap ==
    \/ ProbeLoop(DefaultHosts, {<<FALSE, FALSE>>}, FALSE)
    \/ PassUntil(MaxWrapClock)
    \/ Arrive({ AddCmdItvl("w", "10.0.0.9", 0) }, MaxWrapCmds)

SpecWrap == Init /\ [][NextWrap]_vars

C20_Step ==
    CheckStep =>
        LET t == tgts[idx]
            u == tgts'[idx]
        IN  /\ (~t.isDown /\ ~last'.up) => (u.consecFail = t.consecFail + 1)
            /\ (t.isDown /\ last'.up) => (u.consecOk = t.consecOk + 1)
            /\ (u.isDown # t.isDown)
                  => (IF u.isDown THEN u.consecFail = 3 ELSE u.consecOk = 2)

\* C20: every up target has consecFail <= 2 and every down target has
\* consecOk <= 1; the counter that decides a transition never wraps: a
\* failed check of an up target adds exactly 1 to consecFail, a successful
\* check of a down target adds exactly 1 to consecOk, and isDown changes
\* only at exactly 3 failures or 2 successes.
C20_NoWrapEffect ==
    /\ [](\A i \in InUse :
            IF tgts[i].isDown THEN tgts[i].consecOk <= 1
            ELSE tgts[i].consecFail <= 2)
    /\ [][C20_Step]_vars

\* a down target has failed so often that its consecFail has wrapped to 0
C20_Witness ==
    /\ last.op = "check" /\ ~last.up /\ last.wasDown
    /\ tgts[last.i].isDown
    /\ tgts[last.i].consecFail = 0 /\ tgts[last.i].consecOk = 0

----------------------------------------------------------------------------
(* The viewer fed by the probe's broadcasts and by foreign datagrams *)

ViewCommands == { AddCmd("DNS1", "10.0.0.2"), DelCmd("DNS2") }

NoItems == [doc |-> [ts |-> 7], json |-> TRUE]
NoHost ==
    [doc |-> [items |-> << [name |-> "zabbix", host |-> "172.16.0.9",
                            down |-> 1, rtt |-> 40],
                           [name |-> "DNS1", down |-> 0, rtt |-> 3] >>,
              ts |-> 8],
     json |-> TRUE]
Foreign == { BadJson, NoItems, NoHost }

ViewerMillis == { 5 }

NextView ==
    \/ ProbeLoop({"8.8.8.8", "1.1.1.1", "10.0.0.2"}, {<<FALSE, FALSE>>},
                 TRUE)
    \/ PassUntil(MaxViewClock)
    \/ Arrive(ViewCommands, MaxViewCmds)
    \/ \E vms \in ViewerMillis : pc = "loop" /\ ReadUdp(vms)
    \/ \E d \in Foreign : pc = "loop" /\ RecvTelemetry(d)

SpecView == Init /\ [][NextView]_vars

ReadStep == net # << >> /\ net' = Tail(net) /\ last'.op = "read"

WellFormed(d) ==
    /\ d.json
    /\ "items" \in DOMAIN d.doc
    /\ \A k \in 1..Len(d.doc.items) :
          {"name", "host", "down", "rtt"} \subseteq DOMAIN d.doc.items[k]

\* C8: a datagram that is not valid JSON, has no items array or has an
\* entry without a required field leaves the displayed list and the name,
\* host, down and rtt of every displayed item as they were.
C8_MalformedIgnored ==
    [][ReadStep /\ ~WellFormed(Head(net)) => Display' = Display]_vars

Shown(t) ==
    [name |-> t.name, host |-> t.host, down |-> t.isDown,
     rtt |-> t.lastAvgRtt]

\* C9: when the viewer reads a datagram that carries a whole registry of N
\* targets, the display list has exactly N entries and the i-th has the
\* name, host, down and rtt of the i-th target, whatever was displayed.
C9_RoundTrip ==
    [][ReadStep /\ sent[1].own
           /\ Len(Head(net).doc.items) = Len(sent[1].reg)
          => Display' = [i \in 1..Len(sent[1].reg) |-> Shown(sent[1].reg[i])]
      ]_vars

Range(q) == { q[k] : k \in 1..Len(q) }

Decoded(o) ==
    [name |-> o.name, host |-> o.host, down |-> (o.down = 1), rtt |-> o.rtt]

\* C10: after a well-formed datagram the displayed items are exactly the
\* items of that datagram; an item displayed before whose name the
\* datagram does not list is displayed no more.
C10_Replaced ==
    [][ReadStep /\ WellFormed(Head(net))
          => Range(Display') = { Decoded(o) : o \in Range(Head(net).doc.items) }
      ]_vars

TypeOK ==
    /\ N_TGT \in 0..MAX_TGT
    /\ DOMAIN tgts = 0..(MAX_TGT - 1)
    /\ pc \in {"loop", "cmd", "sched"}
====
